---------------------------- MODULE Spec2Model ----------------------------
(***************************************************************************)
(* Model of kks/binary.py: construction of compiler and runner command     *)
(* lines, the subprocess calls they make and the values they return.       *)
(*                                                                         *)
(* Python lists are sequences.  A list *object* that outlives a call       *)
(* (the module-level tables) is a variable; `x = y` followed by `x += z`   *)
(* on lists extends the object y names, so the variable holding that       *)
(* object is assigned the extended value.                                  *)
(*                                                                         *)
(* A command token is either a Python str, S(s), or a pathlib.Path, P(p).  *)
(* A path is [abs, parts]; a path component is a file name split at its    *)
(* last dot, [stem, ext].                                                  *)
(***************************************************************************)
EXTENDS Integers, Sequences, FiniteSets, TLC

VARIABLES
    GPP_ARGS,       \* module-level list, binary.py:9
    ASAN_ARGS,      \* module-level list, binary.py:20
    ASAN_ENV,       \* module-level dict, binary.py:26
    VALGRIND_ARGS,  \* module-level list, binary.py:30
    os_environ,     \* os.environ of the invoking process
    call,           \* the last top-level call: its name and arguments
    gnu,            \* arguments compile_gnu received in the last call, or NotCalled
    procs,          \* subprocess.run invocations made by the last call, in order
    result          \* what the last call returned or raised

vars == <<GPP_ARGS, ASAN_ARGS, ASAN_ENV, VALGRIND_ARGS, os_environ,
          call, gnu, procs, result>>

tables == <<GPP_ARGS, ASAN_ARGS, ASAN_ENV, VALGRIND_ARGS>>

----------------------------------------------------------------------------
(* Bounds *)

\* compile_cpp is not called any more once GPP_ARGS has grown to this length
MaxGppLen == 10

----------------------------------------------------------------------------
(* Values *)

S(s) == [str |-> s]
P(p) == [path |-> p]

Name(stem, ext) == [stem |-> stem, ext |-> ext]
EmptyStr == Name("", "")

Path(abs, parts) == [abs |-> abs, parts |-> parts]

\* current working directory of the invoking process
Cwd == Path(TRUE, <<Name("home", "")>>)

\* pathlib: p / name
Join(p, name) == Path(p.abs, Append(p.parts, name))

\* pathlib: p.absolute() -- prefixes the cwd to a relative path, no normalisation
Absolute(p) == IF p.abs THEN p ELSE Path(TRUE, Cwd.parts \o p.parts)

\* pathlib: p.suffix
Suffix(p) == p.parts[Len(p.parts)].ext

\* pathlib: p.relative_to(d) succeeds, i.e. d is a prefix of p
IsUnder(p, d) ==
    /\ p.abs = d.abs
    /\ Len(d.parts) <= Len(p.parts)
    /\ SubSeq(p.parts, 1, Len(d.parts)) = d.parts

\* str.lower() on the suffixes that occur
Lower(s) ==
    CASE s = ".S" -> ".s"
      [] s = ".C" -> ".c"
      [] s = ".CPP" -> ".cpp"
      [] OTHER -> s

\* dict(a, **b)
Merge(a, b) ==
    [k \in (DOMAIN a) \cup (DOMAIN b) |-> IF k \in DOMAIN b THEN b[k] ELSE a[k]]

None == [kind |-> "None"]
Returned(v) == [kind |-> "value", value |-> v]
Raised(e) == [kind |-> "raise", exc |-> e]

NotCalled == [called |-> FALSE]

\* [path.absolute() for path in files]
AbsoluteAll(files) == [i \in 1..Len(files) |-> Absolute(files[i])]

\* the paths as elements of a command list
AsTokens(paths) == [i \in 1..Len(paths) |-> P(paths[i])]

RECURSIVE Chain(_)
\* itertools.chain(*seqs)
Chain(seqs) == IF seqs = <<>> THEN <<>> ELSE Head(seqs) \o Chain(Tail(seqs))

Contains(seq, x) == \E i \in 1..Len(seq) : seq[i] = x

----------------------------------------------------------------------------
(* Initial contents of the module-level tables *)

GppArgs0 ==
    << S("g++"), S("-std=gnu++17"), S("-g"), S("-O2"),
       S("-Werror"), S("-Wall"), S("-Wextra"), S("-ftrapv") >>

AsanArgs0 ==
    << S("-fsanitize=address"), S("-fsanitize=undefined"),
       S("-fno-sanitize-recover=all") >>

AsanEnv0 == [k \in {"ASAN_OPTIONS"} |-> "color=always"]

ValgrindArgs0 == << S("valgrind"), S("--leak-check=full") >>


----------------------------------------------------------------------------
(* Inputs the callers and the operating system supply *)

\* exit codes of a child process (a negative code is death by a signal)
ReturnCodes == {0, 1, -11}

\* what subprocess.run meets: the child runs and exits, or it cannot be started
Outcomes ==
    {[started |-> TRUE, returncode |-> rc] : rc \in ReturnCodes}
        \cup {[started |-> FALSE]}

Workdirs == {Path(TRUE, <<Name("w", "")>>), Path(FALSE, <<Name("w", "")>>)}

OutFiles == {EmptyStr, Name("sol", "")}

BuildOptions == [asan : BOOLEAN, verbose : BOOLEAN]

RunOptions == [asan : BOOLEAN, valgrind : BOOLEAN]

\* directory contents, in the order glob yields them
Listings ==
    { <<>>,
      <<Name("notes", ".txt")>>,
      <<Name("main", ".c"), Name("sum", ".S")>>,
      <<Name("f", ".s"), Name("main", ".c")>> }

\* target.files: glob patterns, a stem or "*" and an extension
FilePatterns ==
    { <<Name("*", ".c")>>,
      <<Name("*", ".c"), Name("*", ".S")>>,
      <<Name("*", ".s"), Name("main", ".c")>> }

\* target.flags with target.libs
FlagsAndLibs ==
    { [flags |-> <<>>, libs |-> <<>>],
      [flags |-> <<S("-std=gnu11"), S("-g")>>, libs |-> <<S("m"), S("pthread")>>] }

Targets ==
    { [ compiler |-> S("gcc"), flags |-> fl.flags, libs |-> fl.libs,
        out |-> out, files |-> files, asm64bit |-> asm64bit ] :
      fl \in FlagsAndLibs, out \in OutFiles, files \in FilePatterns,
      asm64bit \in BOOLEAN }

\* source files as a caller passes them: absolute, under a relative directory, bare
MainC == Path(TRUE, <<Name("w", ""), Name("main", ".c")>>)
SumS == Path(FALSE, <<Name("w", ""), Name("sum", ".S")>>)
FS == Path(FALSE, <<Name("f", ".s")>>)

SourceLists == { <<>>, <<MainC>>, <<SumS>>, <<FS, MainC>>, <<MainC, SumS>> }

CppLists ==
    { << Path(FALSE, <<Name("a", ".cpp")>>) >>,
      << Path(TRUE, <<Name("w", ""), Name("b", ".cpp")>>) >> }

ArgLists == { <<>>, <<S("x")>>, <<S("x"), S("-v")>>, <<S("-v"), S("x")>> }

Environs ==
    { [k \in {"PATH"} |-> "/usr/bin"],
      [k \in {"PATH", "ASAN_OPTIONS"} |->
          IF k = "PATH" THEN "/usr/bin" ELSE "color=never"] }

TestDatas ==
    [ file  : BOOLEAN,      \* is_file()
      data  : BOOLEAN,      \* is_data()
      stdin : BOOLEAN,      \* is_stdin()
      input_file : {Path(FALSE, <<Name("tests", ""), Name("001", ".in")>>)},
      input_data : {"5\n"} ]

----------------------------------------------------------------------------
(* compile_gnu *)

DefaultLinkerArgs == <<>>
DefaultOutFile == EmptyStr

\* mutant: the sanitizer arguments are appended after the output flag
GnuCommandAsanAfterOut(workdir, files, options, compiler_args, linker_args, out_file) ==
    LET filenames == AbsoluteAll(files)
        c0 == compiler_args
        c1 == IF out_file # EmptyStr
                THEN c0 \o <<S("-o"), P(Absolute(Join(workdir, out_file)))>>
                ELSE c0
        c2 == IF options.asan THEN c1 \o ASAN_ARGS ELSE c1
        c3 == c2 \o AsTokens(filenames)
    IN  c3 \o linker_args

\* the list `command` names when subprocess.run is reached (binary.py:105-113);
\* it is the very list object the caller passed as compiler_args
GnuCommand(workdir, files, options, compiler_args, linker_args, out_file) ==
    LET filenames == AbsoluteAll(files)
        c0 == compiler_args
        c1 == IF options.asan THEN c0 \o ASAN_ARGS ELSE c0
        c2 == IF out_file # EmptyStr
                THEN c1 \o <<S("-o"), P(Absolute(Join(workdir, out_file)))>>
                ELSE c1
        c3 == c2 \o AsTokens(filenames)
    IN  c3 \o linker_args

\* mutant: the exit code is not looked at
GnuResultAnyExit(workdir, out_file, returncode) ==
    Returned(Join(workdir,
        IF out_file # EmptyStr THEN out_file ELSE Name("a", ".out")))

\* binary.py:120-123
GnuResult(workdir, out_file, returncode) ==
    IF returncode # 0
      THEN None
      ELSE Returned(Join(workdir,
                IF out_file # EmptyStr THEN out_file ELSE Name("a", ".out")))

\* one compile_gnu call: the subprocess.run it makes, what it returns, and the
\* contents of the caller's compiler_args list afterwards
compile_gnu(workdir, files, options, compiler_args, linker_args, out_file, outcome) ==
    LET command == GnuCommand(workdir, files, options, compiler_args,
                              linker_args, out_file)
    IN  [ args    |-> [ called |-> TRUE, workdir |-> workdir, files |-> files,
                        options |-> options, compiler_args |-> compiler_args,
                        linker_args |-> linker_args, out_file |-> out_file ],
          procs   |-> << [command |-> command, cwd |-> workdir, outcome |-> outcome] >>,
          result  |-> IF outcome.started
                        THEN GnuResult(workdir, out_file, outcome.returncode)
                        ELSE Raised("OSError"),
          compiler_args_after |-> command ]

----------------------------------------------------------------------------
(* compile_c_or_asm, compile_solution *)

\* mutant: the suffix is compared without lower()
NeedsM32CaseSensitive(files, target) ==
    /\ ~target.asm64bit
    /\ \E i \in 1..Len(files) : Suffix(files[i]) = ".s"

\* binary.py:88
NeedsM32(files, target) ==
    /\ ~target.asm64bit
    /\ \E i \in 1..Len(files) : Lower(Suffix(files[i])) = ".s"

\* binary.py:87-89: a fresh list, so target.flags is not the list extended later
CCompilerArgs(files, target) ==
    LET compiler_args == <<target.compiler>> \o target.flags
    IN  IF NeedsM32(files, target)
          THEN Append(compiler_args, S("-m32"))
          ELSE compiler_args

\* binary.py:95
CLinkerArgs(target) == [i \in 1..Len(target.libs) |-> S("-l" \o target.libs[i].str)]

compile_c_or_asm(workdir, files, target, options, outcome) ==
    compile_gnu(workdir, files, options, CCompilerArgs(files, target),
                CLinkerArgs(target), target.out, outcome)

\* a glob pattern matches a file name (case-sensitively)
Matches(pattern, name) ==
    /\ pattern.stem = "*" \/ pattern.stem = name.stem
    /\ pattern.ext = name.ext

\* directory.glob(pattern): the matching entries, as paths under the directory
Glob(directory, listing, pattern) ==
    LET hits == SelectSeq(listing, LAMBDA n : Matches(pattern, n))
    IN  [i \in 1..Len(hits) |-> Join(directory, hits[i])]

\* binary.py:66
SourceFiles(directory, listing, target) ==
    Chain([i \in 1..Len(target.files) |-> Glob(directory, listing, target.files[i])])

\* mutant: the emptiness check is missing
NoSourceFilesUnchecked(source_files) == FALSE

\* binary.py:68
NoSourceFiles(source_files) == Len(source_files) = 0

\* binary.py:76-83, given what compile_c_or_asm returned or raised
SolutionResult(directory, binary) ==
    IF binary.kind = "raise" THEN binary
    ELSE IF binary = None THEN None
    ELSE IF ~IsUnder(binary.value, directory) THEN Raised("ValueError")
    ELSE binary

compile_solution(directory, listing, target, options, outcome) ==
    LET source_files == SourceFiles(directory, listing, target)
        inner == compile_c_or_asm(directory, source_files, target, options, outcome)
    IN  IF NoSourceFiles(source_files)
          THEN [ args |-> NotCalled, procs |-> <<>>, result |-> None ]
          ELSE [ args |-> inner.args, procs |-> inner.procs,
                 result |-> SolutionResult(directory, inner.result) ]

----------------------------------------------------------------------------
(* run_solution *)

\* mutant: the memory-checker tokens are put after the binary
RunArgsValgrindInner(binary, args, options) ==
    LET args1 == <<P(Absolute(binary))>> \o args
    IN  IF options.valgrind
          THEN <<P(Absolute(binary))>> \o VALGRIND_ARGS \o args
          ELSE args1

\* binary.py:127, 133-134
RunArgs(binary, args, options) ==
    LET args1 == <<P(Absolute(binary))>> \o args
    IN  IF options.valgrind THEN VALGRIND_ARGS \o args1 ELSE args1

\* binary.py:129-131: the mapping handed to the child
RunEnv(options) ==
    IF options.asan THEN Merge(os_environ, ASAN_ENV) ELSE os_environ

\* mutant: the overlay is written into os.environ (os.environ.update(ASAN_ENV))
EnvironUpdatedInPlace(options) ==
    IF options.asan THEN Merge(os_environ, ASAN_ENV) ELSE os_environ

\* binary.py:129-131: os.environ itself after the call; dict(env, **ASAN_ENV)
\* builds a new dict
EnvironAfter(options) == os_environ

NoWiring == [kind |-> "unknown"]

\* sys.stdin of the invoking process
SysStdin == [stream |-> "sys.stdin"]

\* path.open(mode)
Opened(path, mode) == [file |-> path, mode |-> mode]

\* mutant: the is_data branch is tested before the is_file branch and wires stdin
InputWiringSwapped(test_data) ==
    IF test_data.data
      THEN [kind |-> "stdin", stdin |-> SysStdin]
    ELSE IF test_data.file
      THEN [kind |-> "stdin", stdin |-> Opened(test_data.input_file, "rb")]
    ELSE IF test_data.stdin
      THEN [kind |-> "input", input |-> test_data.input_data]
    ELSE NoWiring

\* mutant: an unknown test type falls back to the invoking process's stdin
InputWiringDefaultStdin(test_data) ==
    IF test_data.file
      THEN [kind |-> "stdin", stdin |-> Opened(test_data.input_file, "rb")]
    ELSE IF test_data.data
      THEN [kind |-> "input", input |-> test_data.input_data]
    ELSE [kind |-> "stdin", stdin |-> SysStdin]

\* binary.py:136-144: the branch taken and the input source it wires
InputWiring(test_data) ==
    IF test_data.file
      THEN [kind |-> "stdin", stdin |-> Opened(test_data.input_file, "rb")]
    ELSE IF test_data.data
      THEN [kind |-> "input", input |-> test_data.input_data]
    ELSE IF test_data.stdin
      THEN [kind |-> "stdin", stdin |-> SysStdin]
    ELSE NoWiring

\* subprocess.run(...) in run_solution: a CompletedProcess, or the launch fails
RunResult(outcome, capture_output) ==
    IF outcome.started
      THEN Returned([returncode |-> outcome.returncode, captured |-> capture_output])
      ELSE Raised("OSError")

run_solution(binary, args, options, test_data, capture_output, outcome) ==
    LET args2 == RunArgs(binary, args, options)
        env == RunEnv(options)
        wiring == InputWiring(test_data)
    IN  IF wiring = NoWiring
          THEN [ procs |-> <<>>, result |-> Raised("Exception") ]
          ELSE [ procs |-> << [ command |-> args2, env |-> env, wiring |-> wiring,
                                capture_output |-> capture_output,
                                outcome |-> outcome ] >>,
                 result |-> RunResult(outcome, capture_output) ]

----------------------------------------------------------------------------
(* The state machine: one action per public function, one step per call *)

\* no call is in progress and the last one's outcome has been taken
NoCall == [op |-> "none"]

Init ==
    /\ GPP_ARGS = GppArgs0
    /\ ASAN_ARGS = AsanArgs0
    /\ ASAN_ENV = AsanEnv0
    /\ VALGRIND_ARGS = ValgrindArgs0
    /\ os_environ \in Environs
    /\ call = NoCall
    /\ gnu = NotCalled
    /\ procs = <<>>
    /\ result = None

CompileGnu ==
    /\ call = NoCall
    /\ \E workdir \in Workdirs, files \in SourceLists,
          options \in BuildOptions,
          compiler_args \in {<<S("gcc")>>, <<S("clang"), S("-O2")>>},
          linker_args \in {DefaultLinkerArgs, <<S("-lm")>>},
          out_file \in {DefaultOutFile} \cup OutFiles,
          outcome \in Outcomes :
        LET r == compile_gnu(workdir, files, options, compiler_args,
                             linker_args, out_file, outcome)
        IN  /\ call' = [op |-> "compile_gnu", workdir |-> workdir, files |-> files,
                        options |-> options, compiler_args |-> compiler_args,
                        linker_args |-> linker_args, out_file |-> out_file]
            /\ gnu' = r.args
            /\ procs' = r.procs
            /\ result' = r.result
            /\ UNCHANGED <<tables, os_environ>>

\* compile_cpp passes the module-level list GPP_ARGS itself as compiler_args
CompileCpp ==
    /\ call = NoCall
    /\ Len(GPP_ARGS) < MaxGppLen
    /\ \E workdir \in Workdirs, files \in CppLists,
          options \in BuildOptions, outcome \in Outcomes :
        LET r == compile_gnu(workdir, files, options, GPP_ARGS,
                             DefaultLinkerArgs, DefaultOutFile, outcome)
        IN  /\ call' = [op |-> "compile_cpp", workdir |-> workdir, files |-> files,
                        options |-> options]
            /\ gnu' = r.args
            /\ procs' = r.procs
            /\ result' = r.result
            /\ GPP_ARGS' = r.compiler_args_after
            /\ UNCHANGED <<ASAN_ARGS, ASAN_ENV, VALGRIND_ARGS, os_environ>>

CompileCOrAsm ==
    /\ call = NoCall
    /\ \E workdir \in Workdirs, files \in SourceLists,
          target \in {t \in Targets : t.files = <<Name("*", ".c")>>},
          options \in BuildOptions, outcome \in Outcomes :
        LET r == compile_c_or_asm(workdir, files, target, options, outcome)
        IN  /\ call' = [op |-> "compile_c_or_asm", workdir |-> workdir,
                        files |-> files, target |-> target, options |-> options]
            /\ gnu' = r.args
            /\ procs' = r.procs
            /\ result' = r.result
            /\ UNCHANGED <<tables, os_environ>>

CompileSolution ==
    /\ call = NoCall
    /\ \E directory \in Workdirs, listing \in Listings, target \in Targets,
          options \in BuildOptions, outcome \in Outcomes :
        LET r == compile_solution(directory, listing, target, options, outcome)
        IN  /\ call' = [op |-> "compile_solution", directory |-> directory,
                        listing |-> listing, target |-> target, options |-> options]
            /\ gnu' = r.args
            /\ procs' = r.procs
            /\ result' = r.result
            /\ UNCHANGED <<tables, os_environ>>

RunSolution ==
    /\ call = NoCall
    /\ \E binary \in {Join(w, Name("sol", "")) : w \in Workdirs},
          args \in ArgLists,
          options \in RunOptions, test_data \in TestDatas,
          capture_output \in BOOLEAN, outcome \in Outcomes :
        LET r == run_solution(binary, args, options, test_data,
                              capture_output, outcome)
        IN  /\ call' = [op |-> "run_solution", binary |-> binary, args |-> args,
                        options |-> options, test_data |-> test_data,
                        capture_output |-> capture_output]
            /\ gnu' = NotCalled
            /\ procs' = r.procs
            /\ result' = r.result
            /\ os_environ' = EnvironAfter(options)
            /\ UNCHANGED tables

\* every call is synchronous: the caller takes what the call returned or raised
\* before it makes the next one
CallerResumes ==
    /\ call # NoCall
    /\ call' = NoCall
    /\ gnu' = NotCalled
    /\ procs' = <<>>
    /\ result' = None
    /\ UNCHANGED <<tables, os_environ>>

Next ==
    \/ CompileGnu
    \/ CompileCpp
    \/ CompileCOrAsm
    \/ CompileSolution
    \/ RunSolution
    \/ CallerResumes

Spec == Init /\ [][Next]_vars

----------------------------------------------------------------------------
(* Properties *)

CompileOps == {"compile_solution", "compile_c_or_asm", "compile_cpp", "compile_gnu"}

\* the working directory and the output file name of the last compile call
CallWorkdir == IF call.op = "compile_solution" THEN call.directory ELSE call.workdir

CallOutFile ==
    CASE call.op \in {"compile_solution", "compile_c_or_asm"} -> call.target.out
      [] call.op = "compile_cpp" -> EmptyStr
      [] call.op = "compile_gnu" -> call.out_file

Exited(p) == p.outcome.started
ExitedWith0(p) == p.outcome.started /\ p.outcome.returncode = 0

\* C1: a compile call returns a binary path only if its compiler subprocess was
\* run and exited with code 0; on exit code 0 the result is
\* workdir / (out_file or 'a.out'); on a nonzero exit code it is None and
\* nothing is raised.
C1_BinaryOnlyOnExitZero ==
    call.op \in CompileOps =>
        /\ result.kind = "value" => Len(procs) = 1 /\ ExitedWith0(procs[1])
        /\ Len(procs) = 1 /\ ExitedWith0(procs[1]) =>
              result = Returned(Join(CallWorkdir,
                          IF CallOutFile # EmptyStr THEN CallOutFile
                                                    ELSE Name("a", ".out")))
        /\ Len(procs) = 1 /\ Exited(procs[1]) /\ ~ExitedWith0(procs[1]) =>
              result = None

C1_Witness ==
    /\ call.op = "compile_solution"
    /\ Len(procs) = 1
    /\ ExitedWith0(procs[1])
    /\ call.target.out = EmptyStr
    /\ result.kind = "value"

\* C2: when the target's patterns match no file under the directory,
\* compile_solution returns None and launches no subprocess, whatever the
\* BuildOptions.
C2_NoSourcesNoSubprocess ==
    ( /\ call.op = "compile_solution"
      /\ \A i \in 1..Len(call.target.files), j \in 1..Len(call.listing) :
            ~Matches(call.target.files[i], call.listing[j]) )
        => result = None /\ procs = <<>> /\ gnu = NotCalled

C2_Witness ==
    /\ call.op = "compile_solution"
    /\ call.listing # <<>>
    /\ call.options.asan
    /\ call.options.verbose
    /\ \A i \in 1..Len(call.target.files), j \in 1..Len(call.listing) :
          ~Matches(call.target.files[i], call.listing[j])
    /\ result = None

\* C3: GPP_ARGS, ASAN_ARGS, VALGRIND_ARGS and ASAN_ENV hold their initial
\* contents after any sequence of calls.
C3_TablesConstant ==
    /\ GPP_ARGS = GppArgs0
    /\ ASAN_ARGS = AsanArgs0
    /\ VALGRIND_ARGS = ValgrindArgs0
    /\ ASAN_ENV = AsanEnv0

\* the command compile_gnu is to execute, written out from its arguments
ExpectedGnuCommand(g) ==
    g.compiler_args
      \o (IF g.options.asan
            THEN << S("-fsanitize=address"), S("-fsanitize=undefined"),
                    S("-fno-sanitize-recover=all") >>
            ELSE <<>>)
      \o (IF g.out_file # EmptyStr
            THEN << S("-o"), P(Absolute(Join(g.workdir, g.out_file))) >>
            ELSE <<>>)
      \o [i \in 1..Len(g.files) |-> P(Absolute(g.files[i]))]
      \o g.linker_args

\* C4: every compile_gnu invocation executes base compiler arguments, then the
\* three sanitizer arguments iff options.asan, then '-o' and the absolute
\* output path iff an output file name was given, then the absolute source
\* paths in their order, then the linker arguments.
C4_GnuCommandOrder ==
    gnu.called => Len(procs) = 1 /\ procs[1].command = ExpectedGnuCommand(gnu)

C4_Witness ==
    /\ gnu.called
    /\ gnu.options.asan
    /\ gnu.out_file # EmptyStr
    /\ Len(gnu.files) = 2
    /\ ~gnu.files[2].abs
    /\ gnu.linker_args # <<>>
    /\ Len(procs) = 1

ViaCOrAsm == call.op \in {"compile_solution", "compile_c_or_asm"} /\ gnu.called

HasAsmFile(files) ==
    \E i \in 1..Len(files) : Suffix(files[i]) \in {".s", ".S"}

\* C5: with a '.s' file (case-insensitively) among the sources, the command of
\* compile_c_or_asm contains '-m32' when target.asm64bit is false and does not
\* contain it when target.asm64bit is true; an added '-m32' directly follows
\* [target.compiler] + target.flags and precedes the sanitizer arguments.
C5_M32ForAsm ==
    (ViaCOrAsm /\ HasAsmFile(gnu.files)) =>
        LET command == procs[1].command
            base == <<call.target.compiler>> \o call.target.flags
        IN  IF call.target.asm64bit
              THEN ~Contains(command, S("-m32"))
              ELSE /\ Contains(command, S("-m32"))
                   /\ SubSeq(command, 1, Len(base) + 1) = Append(base, S("-m32"))
                   /\ \A i \in 1..Len(command) :
                        command[i] = S("-fsanitize=address") => i > Len(base) + 1

C5_Witness ==
    /\ ViaCOrAsm
    /\ ~call.target.asm64bit
    /\ call.target.flags # <<>>
    /\ call.options.asan
    /\ \E i \in 1..Len(gnu.files) : Suffix(gnu.files[i]) = ".S"
    /\ \A i \in 1..Len(gnu.files) : Suffix(gnu.files[i]) # ".s"
    /\ Contains(procs[1].command, S("-m32"))

Tags(test_data) ==
    (IF test_data.file THEN {"file"} ELSE {})
      \cup (IF test_data.data THEN {"data"} ELSE {})
      \cup (IF test_data.stdin THEN {"stdin"} ELSE {})

\* the tag an input source belongs to
TagOf(wiring) ==
    IF wiring.kind = "input" THEN "data"
    ELSE IF wiring.stdin = SysStdin THEN "stdin"
    ELSE "file"

\* C6: run_solution with tagged test data takes one input-wiring branch and
\* launches exactly one subprocess with it: the opened input file (mode 'rb')
\* as stdin for file-backed data, the byte payload as input for in-memory data,
\* the invoking process's stdin for stdin passthrough; the source wired always
\* belongs to an active tag.
C6_OneInputWiring ==
    (call.op = "run_solution" /\ Tags(call.test_data) # {}) =>
        /\ Len(procs) = 1
        /\ TagOf(procs[1].wiring) \in Tags(call.test_data)
        /\ Tags(call.test_data) = {"file"} =>
              procs[1].wiring =
                [kind |-> "stdin", stdin |-> Opened(call.test_data.input_file, "rb")]
        /\ Tags(call.test_data) = {"data"} =>
              procs[1].wiring = [kind |-> "input", input |-> call.test_data.input_data]
        /\ Tags(call.test_data) = {"stdin"} =>
              procs[1].wiring = [kind |-> "stdin", stdin |-> SysStdin]

C6_Witness ==
    /\ call.op = "run_solution"
    /\ Tags(call.test_data) = {"data"}
    /\ Len(procs) = 1
    /\ procs[1].wiring.kind = "input"

\* C7: with no tag active, run_solution raises, returns nothing, launches no
\* subprocess and wires no default input, for every options and capture_output.
C7_UnknownTestDataRaises ==
    (call.op = "run_solution" /\ Tags(call.test_data) = {}) =>
        result = Raised("Exception") /\ procs = <<>>

C7_Witness ==
    /\ call.op = "run_solution"
    /\ Tags(call.test_data) = {}
    /\ call.options.valgrind
    /\ call.options.asan
    /\ ~call.capture_output
    /\ result.kind = "raise"

\* C8: the command run_solution executes is ['valgrind', '--leak-check=full'],
\* the absolute binary path, then the caller's arguments in order when
\* options.valgrind is true; the absolute binary path and the arguments, with no
\* memory-checker token, when it is false.
C8_ValgrindPrefix ==
    (call.op = "run_solution" /\ Len(procs) = 1) =>
        LET plain == <<P(Absolute(call.binary))>> \o call.args
        IN  IF call.options.valgrind
              THEN procs[1].command =
                      <<S("valgrind"), S("--leak-check=full")>> \o plain
              ELSE /\ procs[1].command = plain
                   /\ ~Contains(procs[1].command, S("valgrind"))
                   /\ ~Contains(procs[1].command, S("--leak-check=full"))

C8_Witness ==
    /\ call.op = "run_solution"
    /\ call.options.valgrind
    /\ ~call.binary.abs
    /\ Len(call.args) = 2
    /\ Len(procs) = 1
    /\ Len(procs[1].command) = 5

\* C9: every compile_cpp invocation executes exactly the eight fixed g++
\* arguments, then the sanitizer arguments iff that call's options.asan, then
\* that call's own absolute source paths.
C9_CppCommandFixed ==
    (call.op = "compile_cpp" /\ Len(procs) = 1) =>
        procs[1].command =
            GppArgs0
              \o (IF call.options.asan THEN AsanArgs0 ELSE <<>>)
              \o [i \in 1..Len(call.files) |-> P(Absolute(call.files[i]))]

\* C10: the environment run_solution hands to the subprocess is the inherited
\* one when options.asan is false and the inherited one with ASAN_OPTIONS set
\* to 'color=always' when it is true (the overlay wins, every other variable
\* passes through); no call changes the inherited environment itself.
C10_EnvOverlayPure ==
    [][ /\ os_environ' = os_environ
        /\ (call'.op = "run_solution" /\ Len(procs') = 1) =>
              LET env == procs'[1].env
              IN  IF call'.options.asan
                    THEN /\ DOMAIN env = DOMAIN os_environ \cup {"ASAN_OPTIONS"}
                         /\ env["ASAN_OPTIONS"] = "color=always"
                         /\ \A k \in DOMAIN os_environ \ {"ASAN_OPTIONS"} :
                               env[k] = os_environ[k]
                    ELSE env = os_environ
      ]_vars

C10_Witness ==
    /\ call.op = "run_solution"
    /\ call.options.asan
    /\ Len(procs) = 1
    /\ "ASAN_OPTIONS" \in DOMAIN os_environ
    /\ os_environ["ASAN_OPTIONS"] = "color=never"
    /\ procs[1].env["ASAN_OPTIONS"] = "color=always"
    /\ procs[1].env["PATH"] = os_environ["PATH"]

=============================================================================
